---- MODULE Spec2Model ----
(***************************************************************************)
(* Indexed random access to line-wrapped FASTA files (src/io/fasta.rs):    *)
(* the index, the seek arithmetic, the chunked line reader, the buffer     *)
(* sizing policy, the eager read path and the lazy iterator.               *)
(***************************************************************************)
EXTENDS Integers, Sequences, FiniteSets, TLC

(***************************************************************************)
(* Bounds of the model.                                                    *)
(***************************************************************************)
\* line widths 1..MaxLineBases bases per line
MaxLineBases == 2
\* the second record has 0..MaxLen bases
MaxLen == 5
\* next() calls allowed on one iterator beyond the length of its range
ExtraCalls == 2
\* one more file has lines wider than the reader's largest buffer
WideLineBases == 511
\* and a second record of this many bases
WideLen == 513

\* and one more has lines of this many bases
BroadLineBases == 513
\* and a second record of this many bases
BroadLen == 513

\* an index source has at most this many rows
MaxRows == 3

(***************************************************************************)
(* Program constants and byte values.                                      *)
(***************************************************************************)
MAX_FASTA_BUFFER_SIZE == 512
LF == 10
CR == 13
GT == 62

Min(a, b) == IF a < b THEN a ELSE b

Terminators == {CR, LF}

(***************************************************************************)
(* The data file and its index, as the tests lay them out: a header line   *)
(* per record, then the bases in lines of line_bases bases, each line      *)
(* closed by LF (t = 1) or CR LF (t = 2); the last line may be shorter.    *)
(***************************************************************************)
Term(t) == IF t = 1 THEN <<LF>> ELSE <<CR, LF>>

\* the base at logical position p of the k-th record
BaseByte(k, p) == 65 + ((7 * k + p) % 26)

Header(k, t) == <<GT, 104 + k>> \o Term(t)

NumLines(len, lb) == (len + lb - 1) \div lb

RecLayoutLen(len, lb, t) == len + t * NumLines(len, lb)

\* the j-th byte (from 0) of the sequence lines of the k-th record
RecByte(k, len, lb, t, j) ==
    LET row == j \div (lb + t)
        col == j % (lb + t)
        nb  == Min(lb, len - row * lb)
    IN  IF col < nb THEN BaseByte(k, row * lb + col)
                    ELSE Term(t)[col - nb + 1]

RecLines(k, len, lb, t) ==
    [j \in 1..RecLayoutLen(len, lb, t) |-> RecByte(k, len, lb, t, j - 1)]

\* the bases of the k-th record, terminators removed
Bases(k, len) == [i \in 1..len |-> BaseByte(k, i - 1)]

Names == <<"id", "id2">>
UnknownName == "id3"
AllNames == {"id", "id2", "id3"}

\* a world: line width, terminator width, the records' lengths, whether the
\* index gives 0 as the line widths of an empty record, and how many bytes
\* the data file lacks at its end
\* the file of wide lines, with two-byte terminators
WideWorld ==
    [lb |-> WideLineBases, t |-> 2, len |-> WideLen, zero |-> FALSE, cut |-> 0]

\* a file whose lines are wider than the reader's largest buffer by more
\* than their terminator
BroadWorld ==
    [lb |-> BroadLineBases, t |-> 1, len |-> BroadLen, zero |-> FALSE, cut |-> 0]

WorldIds ==
    {WideWorld} \cup
    { w \in [lb : 1..MaxLineBases, t : 1..2, len : 0..MaxLen,
             zero : BOOLEAN, cut : 0..3] :
        /\ w.zero => w.len = 0
        /\ w.cut > 0 => (w.len = MaxLen /\ w.cut \in {w.t, w.t + 1}) }

RecLen(w, k) == IF k = 1 THEN 1 ELSE w.len

FullFile(w) ==
    Header(1, w.t) \o RecLines(1, RecLen(w, 1), w.lb, w.t)
        \o Header(2, w.t) \o RecLines(2, RecLen(w, 2), w.lb, w.t)

FileOf(w) == SubSeq(FullFile(w), 1, Len(FullFile(w)) - w.cut)

RecOffset(w, k) ==
    IF k = 1 THEN Len(Header(1, w.t))
    ELSE Len(Header(1, w.t)) + RecLayoutLen(RecLen(w, 1), w.lb, w.t)
            + Len(Header(2, w.t))

\* the rows of the .fai file: name, len, offset, line_bases, line_bytes
FaiRows(w) ==
    [k \in 1..2 |->
        [name |-> Names[k],
         record |->
            [len        |-> RecLen(w, k),
             offset     |-> RecOffset(w, k),
             line_bases |-> IF RecLen(w, k) = 0 /\ w.zero THEN 0 ELSE w.lb,
             line_bytes |-> IF RecLen(w, k) = 0 /\ w.zero THEN 0
                            ELSE w.lb + w.t]]]

(***************************************************************************)
(* Index                                                                   *)
(***************************************************************************)
NoRecord == [len |-> -1, offset |-> -1, line_bases |-> -1, line_bytes |-> -1]

RECURSIVE IndexInsert(_, _)
\* Index::new: every row is pushed to seqs and inserted into the map
IndexInsert(index, rows) ==
    IF rows = <<>> THEN index
    ELSE LET row == Head(rows)
         IN  IndexInsert(
                [inner |-> [n \in DOMAIN index.inner \cup {row.name} |->
                              IF n = row.name THEN row.record
                              ELSE index.inner[n]],
                 seqs  |-> Append(index.seqs, row.name)],
                Tail(rows))

IndexNew(rows) == IndexInsert([inner |-> << >>, seqs |-> <<>>], rows)

IndexOf(w) == IndexNew(FaiRows(w))

\* IndexedReader::idx
idx(index, seqname) ==
    IF seqname \in DOMAIN index.inner THEN index.inner[seqname] ELSE NoRecord

(***************************************************************************)
(* The underlying source: io::BufReader over a seekable byte source.       *)
(***************************************************************************)
\* a read that returns the bytes there are, as Read::read does, and no error
ReadExact_short(file, pos, n) ==
    IF pos + n <= Len(file)
    THEN [ok |-> TRUE, bytes |-> [i \in 1..n |-> file[pos + i]], pos |-> pos + n]
    ELSE [ok |-> TRUE,
          bytes |-> [i \in 1..(IF pos < Len(file) THEN Len(file) - pos ELSE 0)
                        |-> file[pos + i]],
          pos |-> IF pos < Len(file) THEN Len(file) ELSE pos]

\* read_exact(&mut buf[..n]) at position pos: all n bytes, or an error
\* (UnexpectedEof) after the source has been drained to its end
ReadExact(file, pos, n) ==
    IF pos + n <= Len(file)
    THEN [ok |-> TRUE, bytes |-> [i \in 1..n |-> file[pos + i]], pos |-> pos + n]
    ELSE [ok |-> FALSE,
          bytes |-> [i \in 1..(IF pos < Len(file) THEN Len(file) - pos ELSE 0)
                        |-> file[pos + i]],
          pos |-> IF pos < Len(file) THEN Len(file) ELSE pos]

\* buf[..n] overwritten by the bytes read, the rest of buf left as it was
Overwrite(buf, bytes) ==
    [i \in 1..Len(buf) |-> IF i <= Len(bytes) THEN bytes[i] ELSE buf[i]]

\* vec![0u8; n]
ZeroBuf(n) == [i \in 1..n |-> 0]

(***************************************************************************)
(* Validation, seek arithmetic, chunked line reader, buffer sizing.        *)
(***************************************************************************)
\* the checks with `>=` for `>` in the bound on stop
CheckInterval_off_by_one(rec, start, stop) ==
    IF stop >= rec.len THEN "OutOfBounds"
    ELSE IF start > stop THEN "InvalidRange"
    ELSE "Ok"

\* the checks that open read_into_buffer and read_into_iter
CheckInterval(rec, start, stop) ==
    IF stop > rec.len THEN "OutOfBounds"
    ELSE IF start > stop THEN "InvalidRange"
    ELSE "Ok"

\* seek_to with the line start computed from line_bases, as if lines had
\* no terminator
seek_to_no_terminators(rec, start) ==
    IF ~(start <= rec.len) \/ rec.line_bases = 0
    THEN [panic |-> TRUE, line_offset |-> 0, offset |-> 0]
    ELSE LET line_offset == start % rec.line_bases
             line_start  == (start \div rec.line_bases) * rec.line_bases
         IN  [panic |-> FALSE, line_offset |-> line_offset,
              offset |-> rec.offset + line_start + line_offset]

\* seek_to taking the position on the line modulo line_bytes
seek_to_mod_line_bytes(rec, start) ==
    IF ~(start <= rec.len) \/ rec.line_bases = 0
    THEN [panic |-> TRUE, line_offset |-> 0, offset |-> 0]
    ELSE LET line_offset == start % rec.line_bytes
             line_start  == (start \div rec.line_bases) * rec.line_bytes
         IN  [panic |-> FALSE, line_offset |-> line_offset,
              offset |-> rec.offset + line_start + line_offset]

\* seek_to: the assertion and the division panic; otherwise the byte
\* address sought and the position on the line
seek_to(rec, start) ==
    IF ~(start <= rec.len) \/ rec.line_bases = 0
    THEN [panic |-> TRUE, line_offset |-> 0, offset |-> 0]
    ELSE LET line_offset == start % rec.line_bases
             line_start  == (start \div rec.line_bases) * rec.line_bytes
         IN  [panic |-> FALSE, line_offset |-> line_offset,
              offset |-> rec.offset + line_start + line_offset]

\* read_line keeping every byte it reads, the terminator included
read_line_keeps_all(rec, line_offset, bases_left, buflen) ==
    LET bases_on_line == rec.line_bases - Min(rec.line_bases, line_offset)
        bytes_to_read ==
            IF bases_on_line < bases_left
            THEN Min(buflen, rec.line_bytes - line_offset)
            ELSE Min(buflen, bases_left)
        advanced == line_offset + bytes_to_read
    IN  [bytes_to_read |-> bytes_to_read,
         bytes_to_keep |-> Min(bytes_to_read, bases_left),
         line_offset   |-> IF advanced >= rec.line_bytes THEN 0 ELSE advanced]

\* read_line reading to the end of the physical line also when the request
\* ends on this line
read_line_to_line_end(rec, line_offset, bases_left, buflen) ==
    LET bases_on_line == rec.line_bases - Min(rec.line_bases, line_offset)
        bytes_to_read == Min(buflen, rec.line_bytes - line_offset)
        bytes_to_keep == Min(Min(bytes_to_read, bases_on_line), bases_left)
        advanced == line_offset + bytes_to_read
    IN  [bytes_to_read |-> bytes_to_read,
         bytes_to_keep |-> bytes_to_keep,
         line_offset   |-> IF advanced >= rec.line_bytes THEN 0 ELSE advanced]

\* read_line without the reset of the line cursor at the end of a line
read_line_no_wrap(rec, line_offset, bases_left, buflen) ==
    LET bases_on_line == rec.line_bases - Min(rec.line_bases, line_offset)
        bytes_to_read ==
            IF bases_on_line < bases_left
            THEN Min(buflen, rec.line_bytes - line_offset)
            ELSE Min(buflen, bases_left)
        bytes_to_keep ==
            IF bases_on_line < bases_left
            THEN Min(bytes_to_read, bases_on_line)
            ELSE bytes_to_read
    IN  [bytes_to_read |-> bytes_to_read,
         bytes_to_keep |-> bytes_to_keep,
         line_offset   |-> line_offset + bytes_to_read]

\* read_line, the arithmetic: bytes to read, bytes to keep, the line cursor
\* after the read
read_line(rec, line_offset, bases_left, buflen) ==
    LET bases_on_line == rec.line_bases - Min(rec.line_bases, line_offset)
        bytes_to_read ==
            IF bases_on_line < bases_left
            THEN Min(buflen, rec.line_bytes - line_offset)
            ELSE Min(buflen, bases_left)
        bytes_to_keep ==
            IF bases_on_line < bases_left
            THEN Min(bytes_to_read, bases_on_line)
            ELSE bytes_to_read
        advanced == line_offset + bytes_to_read
    IN  [bytes_to_read |-> bytes_to_read,
         bytes_to_keep |-> bytes_to_keep,
         line_offset   |-> IF advanced >= rec.line_bytes THEN 0 ELSE advanced]

\* buffer_size one byte short
buffer_size_off_by_one(rec, length, line_offset) ==
    LET size ==
            IF length < rec.line_bytes
            THEN IF /\ length + line_offset > rec.line_bases
                    /\ length + line_offset < rec.line_bytes
                 THEN rec.line_bytes - line_offset
                 ELSE length
            ELSE rec.line_bytes
    IN  IF size > 1 THEN Min(MAX_FASTA_BUFFER_SIZE, size) - 1
        ELSE Min(MAX_FASTA_BUFFER_SIZE, size)

\* buffer_size without the case of a request that ends among the terminator
\* bytes of its first line
buffer_size_no_first_line(rec, length, line_offset) ==
    LET size == IF length < rec.line_bytes THEN length ELSE rec.line_bytes
    IN  Min(MAX_FASTA_BUFFER_SIZE, size)

\* buffer_size without the fixed maximum
buffer_size_uncapped(rec, length, line_offset) ==
    IF length < rec.line_bytes
    THEN IF /\ length + line_offset > rec.line_bases
            /\ length + line_offset < rec.line_bytes
         THEN rec.line_bytes - line_offset
         ELSE length
    ELSE rec.line_bytes

\* buffer_size: one physical line where the request allows it, and at most
\* MAX_FASTA_BUFFER_SIZE bytes
buffer_size(rec, length, line_offset) ==
    LET size ==
            IF length < rec.line_bytes
            THEN IF /\ length + line_offset > rec.line_bases
                    /\ length + line_offset < rec.line_bytes
                 THEN rec.line_bytes - line_offset
                 ELSE length
            ELSE rec.line_bytes
    IN  Min(MAX_FASTA_BUFFER_SIZE, size)

\* one call of read_line on the source: the arithmetic, the read_exact and
\* the update of the line cursor (not reached when the read fails)
ReadLineCall(file, rec, line_offset, bases_left, buf, pos) ==
    LET a == read_line(rec, line_offset, bases_left, Len(buf))
        r == ReadExact(file, pos, a.bytes_to_read)
    IN  [ok          |-> r.ok,
         buf         |-> Overwrite(buf, r.bytes),
         pos         |-> r.pos,
         bases_read  |-> a.bytes_to_keep,
         bytes_read  |-> a.bytes_to_read,
         line_offset |-> IF r.ok THEN a.line_offset ELSE line_offset]

(***************************************************************************)
(* State.                                                                  *)
(***************************************************************************)
VARIABLES
    w,      \* the layout of the data file the reader was opened on
    fasta,  \* the bytes of the underlying source (IndexedReader.reader,
            \* Reader.reader)
    fai,    \* the rows of the index source given to Index::new
    faidx,  \* the index loaded by Index::new (IndexedReader.index)
    listed, \* what Index::sequences returned
    line,   \* Reader.line: the line the sequential Reader has read ahead
    records,\* what the Records iterator has yielded, in order
    hint,   \* what size_hint returned, if it was the most recent call
    pos,    \* position of the underlying source
    seq,    \* the caller's output vector, passed to read and read_all
    pc,     \* "idle", "read" (inside the loop of read_into_buffer), "panicked"
    cur,    \* the frame of read_into_buffer while pc = "read"
    iters,  \* the IndexedReaderIterators alive
    res,    \* what the most recent call returned
    io,     \* seeks and reads the most recent call has issued on the source
    ireq,   \* the range the live iterator was created for
    out     \* the items the live iterator has produced, in order

vars == <<w, fasta, fai, faidx, listed, line, records, hint,
          pos, seq, pc, cur, iters, res, io, ireq, out>>

\* what no method of IndexedReader and of its iterator touches
apart == <<fai, listed, line, records>>

NoFrame == [rec |-> NoRecord, start |-> 0, stop |-> 0, bases_left |-> 0,
            line_offset |-> 0, buf |-> <<>>]
NoReq == [start |-> 0, stop |-> 0]
NoIO == [seeks |-> 0, reads |-> 0]
\* no size_hint was returned by the most recent call
NoHint == [lower |-> -1, upper |-> -1]

\* what the iterator produces besides bytes: Some(Err(e)) and None
ErrItem == -1
EndItem == -2

ValidationErrors == {"UnknownSequence", "OutOfBounds", "InvalidRange"}

File == fasta
Index == faidx

\* the positions the callers' arguments are drawn from: every position of
\* the named record and up to two past its length (the first two and the
\* last ones when the record is the wide one); 0 and 1 for an unknown name
Coords(seqname) ==
    LET len == idx(Index, seqname).len
    IN  IF idx(Index, seqname) = NoRecord THEN 0..1
        ELSE IF len > MaxLen + 1 THEN {0, 1, len - 1, len, len + 1}
        ELSE 0..(len + 2)

Init ==
    /\ w \in WorldIds
    /\ fasta = FileOf(w)
    /\ fai = FaiRows(w)
    /\ faidx = IndexNew(fai)
    /\ listed = <<>>
    /\ line = <<>>
    /\ records = <<>>
    /\ hint = NoHint
    /\ pos = 0
    /\ seq = <<>>
    /\ pc = "idle"
    /\ cur = NoFrame
    /\ iters = <<>>
    /\ res = "none"
    /\ io = NoIO
    /\ ireq = NoReq
    /\ out = <<>>

\* a reader that could be used while an iterator borrows it
ReaderAvailable_shared == TRUE

\* an IndexedReaderIterator holds `&'a mut IndexedReader`, and every read
\* method takes `&mut self`: a call needs the reader not to be borrowed
ReaderAvailable == iters = <<>>

(***************************************************************************)
(* Calls that return at once.                                              *)
(***************************************************************************)
\* return Err(..) before anything was done
Reject(err) ==
    /\ res' = err
    /\ io' = NoIO
    /\ hint' = NoHint
    /\ UNCHANGED <<apart, w, fasta, faidx, pos, seq, pc, cur, iters, ireq, out>>

\* a panic in seek_to (its assertion, or its division by line_bases = 0)
\* called from read_into_buffer: the frame stays as it was at the call
PanicInRead(rec, start, stop) ==
    /\ res' = "panic"
    /\ pc' = "panicked"
    /\ io' = NoIO
    /\ cur' = [rec |-> rec, start |-> start, stop |-> stop,
               bases_left |-> stop - start, line_offset |-> 0, buf |-> <<>>]
    /\ hint' = NoHint
    /\ UNCHANGED <<apart, w, fasta, faidx, pos, seq, iters, ireq, out>>

\* the same panic, in seek_to called from read_into_iter
PanicInIter(start, stop) ==
    /\ res' = "panic"
    /\ pc' = "panicked"
    /\ io' = NoIO
    /\ ireq' = [start |-> start, stop |-> stop]
    /\ hint' = NoHint
    /\ UNCHANGED <<apart, w, fasta, faidx, pos, seq, cur, iters, out>>

(***************************************************************************)
(* The eager path.                                                         *)
(***************************************************************************)
\* read_into_buffer clearing the output before it checks the interval
read_into_buffer_clears_first(rec, start, stop) ==
    IF CheckInterval(rec, start, stop) # "Ok"
    THEN /\ res' = CheckInterval(rec, start, stop)
         /\ io' = NoIO
         /\ seq' = <<>>
         /\ hint' = NoHint
         /\ UNCHANGED <<apart, w, fasta, faidx, pos, pc, cur, iters, ireq, out>>
    ELSE LET s == seek_to(rec, start)
         IN  IF s.panic THEN PanicInRead(rec, start, stop)
             ELSE /\ pos' = s.offset
                  /\ cur' = [rec |-> rec, start |-> start, stop |-> stop,
                             bases_left |-> stop - start,
                             line_offset |-> s.line_offset,
                             buf |-> ZeroBuf(buffer_size(rec, stop - start,
                                                         s.line_offset))]
                  /\ seq' = <<>>
                  /\ pc' = "read"
                  /\ res' = "pending"
                  /\ io' = [seeks |-> 1, reads |-> 0]
                  /\ hint' = NoHint
                  /\ UNCHANGED <<apart, w, fasta, faidx, iters, ireq, out>>

\* read_into_buffer without `seq.clear()`
read_into_buffer_no_clear(rec, start, stop) ==
    IF CheckInterval(rec, start, stop) # "Ok"
    THEN Reject(CheckInterval(rec, start, stop))
    ELSE LET s == seek_to(rec, start)
         IN  IF s.panic THEN PanicInRead(rec, start, stop)
             ELSE /\ pos' = s.offset
                  /\ cur' = [rec |-> rec, start |-> start, stop |-> stop,
                             bases_left |-> stop - start,
                             line_offset |-> s.line_offset,
                             buf |-> ZeroBuf(buffer_size(rec, stop - start,
                                                         s.line_offset))]
                  /\ pc' = "read"
                  /\ res' = "pending"
                  /\ io' = [seeks |-> 1, reads |-> 0]
                  /\ hint' = NoHint
                  /\ UNCHANGED <<apart, w, fasta, faidx, seq, iters, ireq, out>>

\* read_into_buffer up to its loop: the checks, the seek, the buffer, the
\* clearing of the output
read_into_buffer(rec, start, stop) ==
    IF CheckInterval(rec, start, stop) # "Ok"
    THEN Reject(CheckInterval(rec, start, stop))
    ELSE LET s == seek_to(rec, start)
         IN  IF s.panic THEN PanicInRead(rec, start, stop)
             ELSE /\ pos' = s.offset
                  /\ cur' = [rec |-> rec, start |-> start, stop |-> stop,
                             bases_left |-> stop - start,
                             line_offset |-> s.line_offset,
                             buf |-> ZeroBuf(buffer_size(rec, stop - start,
                                                         s.line_offset))]
                  /\ seq' = <<>>
                  /\ pc' = "read"
                  /\ res' = "pending"
                  /\ io' = [seeks |-> 1, reads |-> 0]
                  /\ hint' = NoHint
                  /\ UNCHANGED <<apart, w, fasta, faidx, iters, ireq, out>>

Read(seqname, start, stop) ==
    /\ pc = "idle"
    /\ ReaderAvailable
    /\ IF idx(Index, seqname) = NoRecord
       THEN Reject("UnknownSequence")
       ELSE read_into_buffer(idx(Index, seqname), start, stop)

ReadAll(seqname) ==
    /\ pc = "idle"
    /\ ReaderAvailable
    /\ IF idx(Index, seqname) = NoRecord
       THEN Reject("UnknownSequence")
       ELSE read_into_buffer(idx(Index, seqname), 0, idx(Index, seqname).len)

\* one turn of the loop of read_into_buffer
ReadChunk ==
    /\ pc = "read"
    /\ cur.bases_left > 0
    /\ LET r == ReadLineCall(File, cur.rec, cur.line_offset, cur.bases_left,
                             cur.buf, pos)
       IN  /\ pos' = r.pos
           /\ io' = [io EXCEPT !.reads = @ + 1]
           /\ IF r.ok
              THEN /\ seq' = seq \o SubSeq(r.buf, 1, r.bases_read)
                   /\ cur' = [cur EXCEPT !.bases_left = @ - r.bases_read,
                                         !.line_offset = r.line_offset,
                                         !.buf = r.buf]
                   /\ UNCHANGED <<pc, res>>
              ELSE /\ res' = "UnexpectedEof"
                   /\ pc' = "idle"
                   /\ cur' = NoFrame
                   /\ UNCHANGED seq
    /\ hint' = NoHint
    /\ UNCHANGED <<apart, w, fasta, faidx, iters, ireq, out>>

\* the loop ends: Ok(())
ReadDone ==
    /\ pc = "read"
    /\ cur.bases_left = 0
    /\ res' = "Ok"
    /\ pc' = "idle"
    /\ cur' = NoFrame
    /\ hint' = NoHint
    /\ UNCHANGED <<apart, w, fasta, faidx, pos, seq, iters, io, ireq, out>>

(***************************************************************************)
(* The lazy path.                                                          *)
(***************************************************************************)
read_into_iter(rec, start, stop) ==
    IF CheckInterval(rec, start, stop) # "Ok"
    THEN Reject(CheckInterval(rec, start, stop))
    ELSE LET s == seek_to(rec, start)
         IN  IF s.panic THEN PanicInIter(start, stop)
             ELSE /\ pos' = s.offset
                  /\ iters' = Append(iters,
                        [record |-> rec,
                         bases_left |-> stop - start,
                         line_offset |-> s.line_offset,
                         buf |-> ZeroBuf(buffer_size(rec, stop - start,
                                                     s.line_offset)),
                         buf_idx |-> 0,
                         buf_len |-> 0])
                  /\ res' = "Ok"
                  /\ io' = [seeks |-> 1, reads |-> 0]
                  /\ ireq' = [start |-> start, stop |-> stop]
                  /\ out' = <<>>
                  /\ hint' = NoHint
                  /\ UNCHANGED <<apart, w, fasta, faidx, seq, pc, cur>>

ReadIter(seqname, start, stop) ==
    /\ pc = "idle"
    /\ ReaderAvailable
    /\ IF idx(Index, seqname) = NoRecord
       THEN Reject("UnknownSequence")
       ELSE read_into_iter(idx(Index, seqname), start, stop)

ReadIterAll(seqname) ==
    /\ pc = "idle"
    /\ ReaderAvailable
    /\ IF idx(Index, seqname) = NoRecord
       THEN Reject("UnknownSequence")
       ELSE read_into_iter(idx(Index, seqname), 0, idx(Index, seqname).len)

RECURSIVE fill_buffer(_, _, _, _)
\* fill_buffer without `self.bases_left -= bases_read`
fill_buffer_keeps_bases_left(file, it, p, reads) ==
    IF it.buf_idx # it.buf_len
    THEN [ok |-> TRUE, it |-> it, pos |-> p, reads |-> reads]
    ELSE LET r == ReadLineCall(file, it.record, it.line_offset, it.bases_left,
                               it.buf, p)
         IN  IF ~r.ok
             THEN [ok |-> FALSE, it |-> [it EXCEPT !.buf = r.buf],
                   pos |-> r.pos, reads |-> reads + 1]
             ELSE fill_buffer(file,
                              [it EXCEPT !.line_offset = r.line_offset,
                                         !.buf = r.buf,
                                         !.buf_idx = 0,
                                         !.buf_len = r.bases_read],
                              r.pos, reads + 1)

\* fill_buffer: chunked reads until the buffer holds a base; `reads` counts
\* the reads issued
fill_buffer(file, it, p, reads) ==
    IF it.buf_idx # it.buf_len
    THEN [ok |-> TRUE, it |-> it, pos |-> p, reads |-> reads]
    ELSE LET r == ReadLineCall(file, it.record, it.line_offset, it.bases_left,
                               it.buf, p)
         IN  IF ~r.ok
             THEN [ok |-> FALSE, it |-> [it EXCEPT !.buf = r.buf],
                   pos |-> r.pos, reads |-> reads + 1]
             ELSE fill_buffer(file,
                              [it EXCEPT !.line_offset = r.line_offset,
                                         !.buf = r.buf,
                                         !.buf_idx = 0,
                                         !.buf_len = r.bases_read,
                                         !.bases_left = @ - r.bases_read],
                              r.pos, reads + 1)

\* next() rewinding its buffer when it signals the end
IterNext_rewinds(i) ==
    /\ pc = "idle"
    /\ i \in 1..Len(iters)
    /\ Len(out) < (ireq.stop - ireq.start) + ExtraCalls
    /\ LET it == iters[i]
       IN  IF it.buf_idx < it.buf_len
           THEN /\ out' = Append(out, it.buf[it.buf_idx + 1])
                /\ iters' = [iters EXCEPT ![i].buf_idx = @ + 1]
                /\ res' = "Some"
                /\ io' = NoIO
                /\ UNCHANGED pos
           ELSE IF it.bases_left > 0
           THEN LET f == fill_buffer(File, it, pos, 0)
                IN  /\ pos' = f.pos
                    /\ io' = [seeks |-> 0, reads |-> f.reads]
                    /\ IF f.ok
                       THEN /\ out' = Append(out, f.it.buf[f.it.buf_idx + 1])
                            /\ iters' = [iters EXCEPT
                                            ![i] = [f.it EXCEPT !.buf_idx = @ + 1]]
                            /\ res' = "Some"
                       ELSE /\ out' = Append(out, ErrItem)
                            /\ iters' = [iters EXCEPT ![i] = f.it]
                            /\ res' = "SomeErr"
           ELSE /\ out' = Append(out, EndItem)
                /\ iters' = [iters EXCEPT ![i].buf_idx = 0]
                /\ res' = "None"
                /\ io' = NoIO
                /\ UNCHANGED pos
    /\ hint' = NoHint
    /\ UNCHANGED <<apart, w, fasta, faidx, seq, pc, cur, ireq>>

\* Iterator::next on the i-th live iterator
IterNext(i) ==
    /\ pc = "idle"
    /\ i \in 1..Len(iters)
    /\ Len(out) < (ireq.stop - ireq.start) + ExtraCalls
    /\ LET it == iters[i]
       IN  IF it.buf_idx < it.buf_len
           THEN /\ out' = Append(out, it.buf[it.buf_idx + 1])
                /\ iters' = [iters EXCEPT ![i].buf_idx = @ + 1]
                /\ res' = "Some"
                /\ io' = NoIO
                /\ UNCHANGED pos
           ELSE IF it.bases_left > 0
           THEN LET f == fill_buffer(File, it, pos, 0)
                IN  /\ pos' = f.pos
                    /\ io' = [seeks |-> 0, reads |-> f.reads]
                    /\ IF f.ok
                       THEN /\ out' = Append(out, f.it.buf[f.it.buf_idx + 1])
                            /\ iters' = [iters EXCEPT
                                            ![i] = [f.it EXCEPT !.buf_idx = @ + 1]]
                            /\ res' = "Some"
                       ELSE /\ out' = Append(out, ErrItem)
                            /\ iters' = [iters EXCEPT ![i] = f.it]
                            /\ res' = "SomeErr"
           ELSE /\ out' = Append(out, EndItem)
                /\ res' = "None"
                /\ io' = NoIO
                /\ UNCHANGED <<pos, iters>>
    /\ hint' = NoHint
    /\ UNCHANGED <<apart, w, fasta, faidx, seq, pc, cur, ireq>>

\* size_hint counting the whole buffer, the bytes already produced included
size_hint_whole_buffer(it) ==
    LET h == it.bases_left + it.buf_len
    IN  [lower |-> h, upper |-> h]

\* Iterator::size_hint: (hint, Some(hint))
size_hint(it) ==
    LET h == it.bases_left + (it.buf_len - it.buf_idx)
    IN  [lower |-> h, upper |-> h]

\* size_hint called on the i-th live iterator (&self: nothing changes)
SizeHint(i) ==
    /\ pc = "idle"
    /\ i \in 1..Len(iters)
    /\ hint = NoHint
    /\ hint' = size_hint(iters[i])
    /\ UNCHANGED <<apart, w, fasta, faidx, pos, seq, pc, cur, iters, res, io,
                   ireq, out>>

\* the i-th iterator is dropped: the borrow of the reader ends
Drop(i) ==
    /\ pc = "idle"
    /\ i \in 1..Len(iters)
    /\ iters' = [j \in 1..(Len(iters) - 1) |->
                    IF j < i THEN iters[j] ELSE iters[j + 1]]
    /\ res' = "none"
    /\ io' = NoIO
    /\ ireq' = NoReq
    /\ out' = <<>>
    /\ hint' = NoHint
    /\ UNCHANGED <<apart, w, fasta, faidx, pos, seq, pc, cur>>

Next ==
    \/ \E n \in AllNames : \E s \in Coords(n), e \in Coords(n) : Read(n, s, e)
    \/ \E n \in AllNames : ReadAll(n)
    \/ ReadChunk
    \/ ReadDone
    \/ \E n \in AllNames : \E s \in Coords(n), e \in Coords(n) : ReadIter(n, s, e)
    \/ \E n \in AllNames : ReadIterAll(n)
    \/ \E i \in 1..Len(iters) : IterNext(i)
    \/ \E i \in 1..Len(iters) : Drop(i)

Spec == Init /\ [][Next]_vars

\* the same reader, opened also on the file of the broadest lines
InitBroad ==
    /\ w \in WorldIds \cup {BroadWorld}
    /\ fasta = FileOf(w)
    /\ fai = FaiRows(w)
    /\ faidx = IndexNew(fai)
    /\ listed = <<>>
    /\ line = <<>>
    /\ records = <<>>
    /\ hint = NoHint
    /\ pos = 0
    /\ seq = <<>>
    /\ pc = "idle"
    /\ cur = NoFrame
    /\ iters = <<>>
    /\ res = "none"
    /\ io = NoIO
    /\ ireq = NoReq
    /\ out = <<>>

SpecBroad == InitBroad /\ [][Next]_vars

\* the reader of SpecBroad whose iterators are also asked their size_hint
NextHint ==
    \/ Next
    \/ \E i \in 1..Len(iters) : SizeHint(i)

SpecHint == InitBroad /\ [][NextHint]_vars

(***************************************************************************)
(* Loading an index on its own: Index::new on any rows, then               *)
(* Index::sequences.                                                       *)
(***************************************************************************)
\* the index sources: up to MaxRows rows, of two names and lengths 1..2
RowChoices ==
    [name : {"id", "id2"},
     record : [len : 1..2, offset : {4}, line_bases : {2}, line_bytes : {3}]]

FaiSources ==
    UNION {[1..n -> RowChoices] : n \in 0..MaxRows}

NoIndex == [inner |-> << >>, seqs |-> <<>>]

\* no data file is involved
NoWorld == [lb |-> 1, t |-> 1, len |-> 0, zero |-> FALSE, cut |-> 0]

\* Index::sequences: the names in row order, each with the length the map
\* holds for it
sequences(index) ==
    [i \in 1..Len(index.seqs) |->
        [name |-> index.seqs[i], len |-> index.inner[index.seqs[i]].len]]

InitIndex ==
    /\ fai \in FaiSources
    /\ faidx = NoIndex
    /\ listed = <<>>
    /\ pc = "unloaded"
    /\ res = "none"
    /\ w = NoWorld
    /\ fasta = <<>>
    /\ line = <<>>
    /\ records = <<>>
    /\ hint = NoHint
    /\ pos = 0
    /\ seq = <<>>
    /\ cur = NoFrame
    /\ iters = <<>>
    /\ io = NoIO
    /\ ireq = NoReq
    /\ out = <<>>

\* Index::new: every row decodes, the loop ends, Ok(Index)
IndexLoad ==
    /\ pc = "unloaded"
    /\ faidx' = IndexNew(fai)
    /\ res' = "Ok"
    /\ pc' = "loaded"
    /\ UNCHANGED <<fai, listed, line, records, hint, w, fasta, pos, seq,
                   cur, iters, io, ireq, out>>

\* Index::sequences on the loaded index
Sequences ==
    /\ pc = "loaded"
    /\ listed' = sequences(faidx)
    /\ pc' = "listed"
    /\ UNCHANGED <<fai, faidx, res, line, records, hint, w, fasta, pos,
                   seq, cur, iters, io, ireq, out>>

NextIndex ==
    \/ IndexLoad
    \/ Sequences

SpecIndex == InitIndex /\ [][NextIndex]_vars

(***************************************************************************)
(* The sequential Reader and its Records iterator.                         *)
(***************************************************************************)
SP == 32
TAB == 9
\* the ASCII characters char::is_whitespace accepts
Whitespace == {9, 10, 11, 12, 13, 32}

\* "id", "id2" and "desc"
IdBytes(k) == IF k = 1 THEN <<105, 100>> ELSE <<105, 100, 50>>
DescBytes == <<100, 101, 115, 99>>

\* the files read sequentially: n records; the header of the first has a
\* description after the byte sep (none when sep = 0), the header of the
\* second has none; the first record has lb + 1 bases, the second len; the
\* file may lack its final terminator (cut = t)
SeqWorlds ==
    { x \in [lb : 1..MaxLineBases, t : 1..2, len : 0..MaxLen,
             sep : {0, SP, TAB}, n : 0..2, cut : 0..2] :
        /\ x.cut \in {0, x.t}
        /\ x.n = 0 => (x.cut = 0 /\ x.sep = 0 /\ x.len = 0 /\ x.lb = 1)
        /\ x.n = 1 => x.len = 0 }

SeqRecLen(x, k) == IF k = 1 THEN x.lb + 1 ELSE x.len

SeqHeader(x, k) ==
    <<GT>> \o IdBytes(k)
        \o (IF k = 1 /\ x.sep # 0 THEN <<x.sep>> \o DescBytes ELSE <<>>)
        \o Term(x.t)

SeqRecord(x, k) ==
    SeqHeader(x, k) \o RecLines(k, SeqRecLen(x, k), x.lb, x.t)

SeqFullFile(x) ==
    (IF x.n >= 1 THEN SeqRecord(x, 1) ELSE <<>>)
        \o (IF x.n >= 2 THEN SeqRecord(x, 2) ELSE <<>>)

SeqFile(x) == SubSeq(SeqFullFile(x), 1, Len(SeqFullFile(x)) - x.cut)

\* BufRead::read_line at position p: the bytes up to and including the next
\* LF, or up to the end of the source
BufReadLine(file, p) ==
    LET ends == {i \in (p + 1)..Len(file) : file[i] = LF}
        last == IF ends = {} THEN Len(file)
                ELSE CHOOSE i \in ends : \A j \in ends : i <= j
    IN  SubSeq(file, p + 1, last)

RECURSIVE TrimRight(_)
\* str::trim_right
TrimRight(s) ==
    IF s = <<>> \/ s[Len(s)] \notin Whitespace THEN s
    ELSE TrimRight(SubSeq(s, 1, Len(s) - 1))

\* str::starts_with('>')
StartsWithGT(s) == s # <<>> /\ s[1] = GT

RECURSIVE ReadSeqLines(_, _, _)
\* the loop of Reader::read: lines are appended, trimmed, to the sequence
\* until the source ends or a line starts with '>', which stays in line
ReadSeqLines(file, p, sq) ==
    LET ln == BufReadLine(file, p)
    IN  IF ln = <<>> \/ StartsWithGT(ln)
        THEN [seq |-> sq, pos |-> p + Len(ln), line |-> ln]
        ELSE ReadSeqLines(file, p + Len(ln), sq \o TrimRight(ln))

\* Reader::read on a cleared record
ReaderRead(file, p, ln) ==
    LET first == IF ln = <<>> THEN BufReadLine(file, p) ELSE ln
        p1    == IF ln = <<>> THEN p + Len(first) ELSE p
    IN  IF first = <<>>
        THEN [res |-> "Ok", header |-> <<>>, seq |-> <<>>,
              pos |-> p1, line |-> first]
        ELSE IF ~StartsWithGT(first)
        THEN [res |-> "Err", header |-> <<>>, seq |-> <<>>,
              pos |-> p1, line |-> first]
        ELSE LET r == ReadSeqLines(file, p1, <<>>)
             IN  [res |-> "Ok", header |-> first, seq |-> r.seq,
                  pos |-> r.pos, line |-> r.line]

\* Option<&str>
None == [some |-> FALSE, val |-> <<>>]
Some(s) == [some |-> TRUE, val |-> s]

\* self.header[1..].trim_right().splitn(2, ' ')
HeaderFields(header) ==
    LET s      == TrimRight(Tail(header))
        spaces == {i \in 1..Len(s) : s[i] = SP}
        first  == CHOOSE i \in spaces : \A j \in spaces : i <= j
    IN  IF spaces = {} THEN <<s>>
        ELSE <<SubSeq(s, 1, first - 1), SubSeq(s, first + 1, Len(s))>>

\* Record::id and Record::desc
id(header) == Some(HeaderFields(header)[1])
desc(header) ==
    IF Len(HeaderFields(header)) >= 2 THEN Some(HeaderFields(header)[2])
    ELSE None

InitReader ==
    /\ w \in SeqWorlds
    /\ fasta = SeqFile(w)
    /\ hint = NoHint
    /\ pos = 0
    /\ line = <<>>
    /\ records = <<>>
    /\ pc = "idle"
    /\ res = "none"
    /\ fai = <<>>
    /\ faidx = NoIndex
    /\ listed = <<>>
    /\ seq = <<>>
    /\ cur = NoFrame
    /\ iters = <<>>
    /\ io = NoIO
    /\ ireq = NoReq
    /\ out = <<>>

\* Records::next: a new record, Reader::read, and the match on its result
RecordsNext ==
    /\ Len(records) < w.n + ExtraCalls
    /\ LET r == ReaderRead(fasta, pos, line)
       IN  /\ pos' = r.pos
           /\ line' = r.line
           /\ IF r.res = "Ok" /\ r.header = <<>> /\ r.seq = <<>>
              THEN /\ res' = "None"
                   /\ records' = Append(records,
                        [kind |-> "None", header |-> <<>>, seq |-> <<>>])
              ELSE IF r.res = "Ok"
              THEN /\ res' = "Some"
                   /\ records' = Append(records,
                        [kind |-> "Record", header |-> r.header, seq |-> r.seq])
              ELSE /\ res' = "SomeErr"
                   /\ records' = Append(records,
                        [kind |-> "Err", header |-> <<>>, seq |-> <<>>])
    /\ UNCHANGED <<w, fasta, fai, faidx, listed, hint, seq, pc, cur, iters,
                   io, ireq, out>>

NextReader == RecordsNext

SpecReader == InitReader /\ [][NextReader]_vars

(***************************************************************************)
(* The eager read as a function of the request alone: what read does on a  *)
(* reader on which nothing was done before.                                *)
(***************************************************************************)
\* read_into_buffer up to its loop, on valid arguments
EagerEntry(rec, start, stop) ==
    LET s == seek_to(rec, start)
    IN  [res |-> "pending", pos |-> s.offset, seq |-> <<>>,
         bases_left |-> stop - start, line_offset |-> s.line_offset,
         buf |-> ZeroBuf(buffer_size(rec, stop - start, s.line_offset))]

\* one turn of the loop of read_into_buffer, or its exit
EagerStep(file, rec, st) ==
    LET r == ReadLineCall(file, rec, st.line_offset, st.bases_left,
                          st.buf, st.pos)
    IN  IF st.res # "pending" THEN st
        ELSE IF st.bases_left = 0 THEN [st EXCEPT !.res = "Ok"]
        ELSE IF ~r.ok
             THEN [st EXCEPT !.res = "UnexpectedEof", !.pos = r.pos,
                             !.buf = r.buf]
             ELSE [st EXCEPT !.pos = r.pos,
                             !.seq = @ \o SubSeq(r.buf, 1, r.bases_read),
                             !.bases_left = @ - r.bases_read,
                             !.line_offset = r.line_offset,
                             !.buf = r.buf]

RECURSIVE EagerAfter(_, _, _, _, _)
\* the locals of read_into_buffer, the source position and the output after
\* n turns of its loop
EagerAfter(file, rec, start, stop, n) ==
    IF n = 0 THEN EagerEntry(rec, start, stop)
    ELSE EagerStep(file, rec, EagerAfter(file, rec, start, stop, n - 1))

RECURSIVE EagerRun(_, _, _)
\* the loop of read_into_buffer run until it returns
EagerRun(file, rec, st) ==
    IF st.res # "pending" THEN st
    ELSE EagerRun(file, rec, EagerStep(file, rec, st))

\* read on valid arguments: the result, and the output it leaves
EagerRead(file, rec, start, stop) ==
    EagerRun(file, rec, EagerEntry(rec, start, stop))

(***************************************************************************)
(* Vocabulary of the properties.                                           *)
(***************************************************************************)
\* what a call of read or read_iter answers to its arguments before any I/O:
\* idx, then the checks of read_into_buffer / read_into_iter
ValidationOf(index, seqname, start, stop) ==
    IF idx(index, seqname) = NoRecord THEN "UnknownSequence"
    ELSE CheckInterval(idx(index, seqname), start, stop)

\* the names the rows of the index file give, and the length given for one
RowNames == {FaiRows(w)[k].name : k \in 1..2}
RowLen(seqname) ==
    FaiRows(w)[CHOOSE k \in 1..2 : FaiRows(w)[k].name = seqname].record.len

\* the number of the record an index row describes
RecNo(rec) == CHOOSE k \in 1..2 : FaiRows(w)[k].record = rec

\* all the bases of the record an index row describes
RecordBases(rec) == Bases(RecNo(rec), rec.len)

\* the bytes among the items an iterator has produced
BytesOf(items) == SelectSeq(items, LAMBDA x : x >= 0)

IsPrefix(a, b) == Len(a) <= Len(b) /\ a = SubSeq(b, 1, Len(a))

IterAlive == Len(iters) = 1
It == iters[1]

\* the index of the line that holds logical position p
LineOf(rec, p) == p \div rec.line_bases

\* where the data layout puts the base at logical position p of a record:
\* whole lines of line_bytes bytes before its line, then its column
Addr(rec, p) ==
    rec.offset + (p \div rec.line_bases) * rec.line_bytes
        + (p % rec.line_bases)

\* the range [start, stop) lies within what remains of the line of start
FitsOnLine(rec, start, stop) ==
    (start % rec.line_bases) + (stop - start) <= rec.line_bases

\* the data file holds every base its index describes
AllBasesPresent == w.cut <= w.t

(***************************************************************************)
(* C1: range correctness of the eager read. Throughout the loop of         *)
(* read_into_buffer the output holds exactly the bases at logical          *)
(* positions start .. stop - bases_left - 1 of the record, in order, so a  *)
(* read that leaves the loop (bases_left = 0, Ok) has put exactly the      *)
(* substring [start, stop) of the record in the output; for read_all that  *)
(* is the whole record.                                                    *)
(***************************************************************************)
C1_RangeCorrect ==
    pc = "read" =>
        /\ cur.bases_left >= 0
        /\ seq = SubSeq(RecordBases(cur.rec), cur.start + 1,
                        cur.stop - cur.bases_left)

\* a finished read that began inside a line, crossed two line ends of
\* two-byte terminators and ended inside a third line
C1_Witness ==
    /\ pc = "read"
    /\ cur.bases_left = 0
    /\ w.t = 2
    /\ cur.start % cur.rec.line_bases # 0
    /\ LineOf(cur.rec, cur.stop - 1) >= LineOf(cur.rec, cur.start) + 2
    /\ Len(seq) = cur.stop - cur.start
    /\ seq = SubSeq(RecordBases(cur.rec), cur.start + 1, cur.stop)

(***************************************************************************)
(* C2: eager/lazy equivalence. The bytes an iterator has produced are      *)
(* always a prefix of what read puts in its output for the same range;     *)
(* once the iterator has signalled the end they are exactly that output    *)
(* and the eager read succeeds; if it produced an error, the eager read    *)
(* fails too, with the same bytes in its output.                           *)
(***************************************************************************)
C2_EagerLazy ==
    IterAlive =>
        LET e == EagerRead(File, It.record, ireq.start, ireq.stop)
        IN  /\ IsPrefix(BytesOf(out), e.seq)
            /\ \A i \in 1..Len(out) :
                  /\ out[i] = EndItem => (e.res = "Ok" /\ BytesOf(out) = e.seq)
                  /\ out[i] = ErrItem =>
                        (e.res = "UnexpectedEof" /\ BytesOf(out) = e.seq)

\* an iterator over a range crossing a line end has been read to its end
C2_Witness ==
    /\ IterAlive
    /\ Len(out) > 0
    /\ out[Len(out)] = EndItem
    /\ Len(BytesOf(out)) = ireq.stop - ireq.start
    /\ ireq.start % It.record.line_bases # 0
    /\ LineOf(It.record, ireq.stop - 1) > LineOf(It.record, ireq.start)

(***************************************************************************)
(* C3: terminator exclusion. No byte of the eager output, no byte an       *)
(* iterator has produced and no byte of the kept part buf[0..buf_len) of   *)
(* an iterator's buffer is CR or LF, whatever the terminator width, the    *)
(* range and the start offset.                                             *)
(***************************************************************************)
C3_NoTerminator ==
    /\ \A i \in 1..Len(seq) : seq[i] \notin Terminators
    /\ \A i \in 1..Len(out) : out[i] \notin Terminators
    /\ \A k \in 1..Len(iters) :
          \A i \in 1..iters[k].buf_len : iters[k].buf[i] \notin Terminators

\* a chunked read has captured both bytes of a CR LF terminator in the
\* buffer, beyond the bases it kept, and the bases were produced
C3_Witness ==
    /\ IterAlive
    /\ w.t = 2
    /\ It.buf_len > 0
    /\ It.buf_idx = It.buf_len
    /\ Len(It.buf) >= It.buf_len + 2
    /\ It.buf[It.buf_len + 1] = CR
    /\ It.buf[It.buf_len + 2] = LF
    /\ Len(BytesOf(out)) >= It.buf_len

(***************************************************************************)
(* C4: an empty range read(name, k, k), 0 <= k <= len, succeeds with an    *)
(* empty output for every record of the index, a record of length 0        *)
(* included: whenever read_into_buffer has been entered for an empty       *)
(* range of a record, it is in its loop with nothing left to read and an   *)
(* empty output, from where it returns Ok.                                 *)
(***************************************************************************)
C4_EmptyRangeSucceeds ==
    (cur.rec # NoRecord /\ cur.start = cur.stop /\ cur.stop <= cur.rec.len) =>
        /\ pc = "read"
        /\ cur.bases_left = 0
        /\ seq = <<>>

(***************************************************************************)
(* C5: validation. Wherever a call can start, a name absent from the       *)
(* index is answered UnknownSequence and no other request is; for a known  *)
(* name, stop > len is answered OutOfBounds, start > stop (with            *)
(* stop <= len: the bound on stop is checked first) InvalidRange, and      *)
(* every 0 <= start <= stop <= len passes, so stop = len and start = stop  *)
(* pass while stop = len + 1 and start = stop + 1 do not. Every request    *)
(* that got past the checks, on either path, satisfies                     *)
(* start <= stop <= len.                                                   *)
(***************************************************************************)
C5_Validation ==
    /\ (pc = "idle" /\ ReaderAvailable) =>
          LET index == Index
              names == RowNames
          IN  \A n \in AllNames :
                LET len == IF n \in names THEN RowLen(n) ELSE 0
                    args == Coords(n)
                IN  \A s \in args, e \in args :
                      LET v == ValidationOf(index, n, s, e)
                      IN  /\ (v = "UnknownSequence") <=> (n \notin names)
                          /\ n \in names =>
                                /\ e > len => v = "OutOfBounds"
                                /\ (e <= len /\ s > e) => v = "InvalidRange"
                                /\ (s <= e /\ e <= len) => v = "Ok"
    /\ pc = "read" => (cur.start <= cur.stop /\ cur.stop <= cur.rec.len)
    /\ IterAlive => (ireq.start <= ireq.stop /\ ireq.stop <= It.record.len)
    /\ res \in ValidationErrors => pc = "idle"

\* a request was answered OutOfBounds after an earlier read had succeeded
C5_Witness ==
    /\ res = "OutOfBounds"
    /\ pc = "idle"
    /\ seq # <<>>

(***************************************************************************)
(* C6: a call that fails validation has issued no seek and no read and     *)
(* has left the source position and the caller's output as they were.      *)
(***************************************************************************)
C6_RejectTouchesNothing ==
    [][res' \in ValidationErrors =>
          /\ pos' = pos
          /\ seq' = seq
          /\ io' = NoIO
          /\ pc' = pc]_vars

\* a rejected request whose caller still holds the bases of an earlier read
C6_Witness ==
    /\ res \in ValidationErrors
    /\ seq # <<>>
    /\ pos > 0

(***************************************************************************)
(* C7: exclusivity. At most one iterator is alive; while one is alive no   *)
(* read, read_all, read_iter or read_iter_all starts (no eager loop is     *)
(* entered, the output is untouched, no seek is issued, no second          *)
(* iterator appears, no call is answered): every step is one next() of     *)
(* the live iterator, which alone moves the source, or its release.        *)
(***************************************************************************)
C7_Exclusive ==
    [][/\ Len(iters') <= 1
       /\ iters # <<>> =>
            /\ pc' = "idle"
            /\ seq' = seq
            /\ io'.seeks = 0
            /\ iters' # <<>> =>
                  /\ ireq' = ireq
                  /\ Len(out') = Len(out) + 1
                  /\ res' \in {"Some", "SomeErr", "None"}
                  /\ pos' # pos => io'.reads > 0
            /\ iters' = <<>> => pos' = pos]_vars

\* a live iterator has moved the source by a refill
C7_Witness ==
    /\ IterAlive
    /\ io.reads > 0
    /\ Len(BytesOf(out)) > 1

(***************************************************************************)
(* C8: independence of history. Whatever was done on the reader before,    *)
(* the locals of an eager read, the source position and the output are,    *)
(* after each turn of the loop, what they are on a reader on which         *)
(* nothing was done; a new iterator starts at the sought address with a    *)
(* fresh line cursor and an empty buffer.                                  *)
(***************************************************************************)
C8_HistoryFree ==
    /\ pc = "read" =>
          LET st == EagerAfter(File, cur.rec, cur.start, cur.stop, io.reads)
          IN  /\ pos = st.pos
              /\ seq = st.seq
              /\ cur.bases_left = st.bases_left
              /\ cur.line_offset = st.line_offset
              /\ cur.buf = st.buf
    /\ (IterAlive /\ out = <<>>) =>
          LET s == seek_to(It.record, ireq.start)
          IN  /\ pos = s.offset
              /\ It.line_offset = s.line_offset
              /\ It.bases_left = ireq.stop - ireq.start
              /\ It.buf_idx = 0 /\ It.buf_len = 0
              /\ It.buf = ZeroBuf(Len(It.buf))

\* a finished read of fewer bases than the caller's vector held before it
C8_Witness ==
    /\ pc = "read"
    /\ cur.bases_left = 0
    /\ io.reads > 1
    /\ cur.start > 0
    /\ cur.stop < cur.rec.len

(***************************************************************************)
(* C9: the items of an iterator are bounded by the length of its range:    *)
(* it produces at most stop - start items (bytes or errors) before it      *)
(* signals the end, on every source.                                       *)
(***************************************************************************)
C9_ItemsBounded ==
    IterAlive =>
        Cardinality({i \in 1..Len(out) : out[i] # EndItem})
            <= ireq.stop - ireq.start

(***************************************************************************)
(* C10: a chunked read of the eager path that needs more bytes than the    *)
(* source holds ends the call with an error at that chunk: one read is     *)
(* issued, none after it, nothing is appended; and the loop is never left  *)
(* with fewer than stop - start bytes in the output.                       *)
(***************************************************************************)
C10_ShortSourceFails ==
    /\ [](pc = "read" /\ cur.bases_left = 0
            => Len(seq) = cur.stop - cur.start)
    /\ [][(/\ pc = "read"
           /\ cur.bases_left > 0
           /\ pos + read_line(cur.rec, cur.line_offset, cur.bases_left,
                              Len(cur.buf)).bytes_to_read > Len(File))
          => /\ res' = "UnexpectedEof"
             /\ pc' = "idle"
             /\ seq' = seq
             /\ io'.reads = io.reads + 1]_vars

\* an eager read has failed on a short file after a chunk that succeeded
C10_Witness ==
    /\ res = "UnexpectedEof"
    /\ pc = "idle"
    /\ w.cut > 0
    /\ seq # <<>>
    /\ io.reads > 1

(***************************************************************************)
(* C11: no read past the last requested base. Before every chunked read    *)
(* of a valid request the bytes it asks for end at or before the byte of   *)
(* base stop - 1; after every chunked read that succeeded the source       *)
(* position is at most the address of the next base to be read, and when   *)
(* the last base of a nonempty range has been read it is exactly one past  *)
(* the address of base stop - 1 (an empty range issues no read at all).    *)
(* So on a file that holds all its bases, with or without a terminator     *)
(* after the last one, no valid request meets the end of data.             *)
(***************************************************************************)
C11_NoReadPastLastBase ==
    /\ pc = "read" =>
          /\ cur.bases_left > 0 =>
                /\ pos <= Addr(cur.rec, cur.stop - cur.bases_left)
                /\ pos + read_line(cur.rec, cur.line_offset, cur.bases_left,
                                   Len(cur.buf)).bytes_to_read
                      <= Addr(cur.rec, cur.stop - 1) + 1
          /\ (cur.bases_left = 0 /\ cur.stop > cur.start) =>
                pos = Addr(cur.rec, cur.stop - 1) + 1
          /\ cur.stop = cur.start => io.reads = 0
    /\ (IterAlive /\ (out = <<>> \/ out[Len(out)] # ErrItem)) =>
          /\ It.bases_left > 0 =>
                /\ pos <= Addr(It.record, ireq.stop - It.bases_left)
                /\ pos + read_line(It.record, It.line_offset, It.bases_left,
                                   Len(It.buf)).bytes_to_read
                      <= Addr(It.record, ireq.stop - 1) + 1
          /\ (It.bases_left = 0 /\ ireq.stop > ireq.start) =>
                pos = Addr(It.record, ireq.stop - 1) + 1
    /\ AllBasesPresent =>
          /\ res \notin {"UnexpectedEof", "SomeErr"}
          /\ \A i \in 1..Len(out) : out[i] # ErrItem

\* a read of several chunks has ended at the last base of a file that has
\* no terminator after it: the source is at its end
C11_Witness ==
    /\ pc = "read"
    /\ cur.bases_left = 0
    /\ w.cut = w.t
    /\ cur.stop = cur.rec.len
    /\ io.reads >= 2
    /\ pos = Len(File)
    /\ Len(seq) = cur.stop - cur.start

(***************************************************************************)
(* C12: loading an index in which a name appears in two rows fails with    *)
(* MalformedIndex and returns no Index.                                    *)
(***************************************************************************)
C12_DuplicateRejected ==
    (/\ pc # "unloaded"
     /\ \E i, j \in 1..Len(fai) : i < j /\ fai[i].name = fai[j].name)
        => (res = "MalformedIndex" /\ faidx = NoIndex)

(***************************************************************************)
(* C13: the Records iterator over a well-formed file yields each record    *)
(* once, in file order, and then ends. Each record's sequence is its       *)
(* bases with the line terminators removed, its id is the first            *)
(* whitespace-delimited token of the header after '>', its description     *)
(* the rest of the header if there is one and absent otherwise.            *)
(***************************************************************************)
C13_RecordsInOrder ==
    \A i \in 1..Len(records) :
        IF i <= w.n
        THEN /\ records[i].kind = "Record"
             /\ records[i].seq = Bases(i, SeqRecLen(w, i))
             /\ id(records[i].header) = Some(IdBytes(i))
             /\ desc(records[i].header) =
                    IF i = 1 /\ w.sep # 0 THEN Some(DescBytes) ELSE None
        ELSE records[i].kind = "None"

(***************************************************************************)
(* C14: coordinate translation. On a file that holds all the bases of its  *)
(* index, for every record and every position p < len, the byte at         *)
(* offset + (p div line_bases) * line_bytes + (p mod line_bases) is the    *)
(* p-th base of the record, never a terminator, and seek_to(record, p)     *)
(* gives that address and the line cursor p mod line_bases; after the      *)
(* seek of a read or of a new iterator the source is at that address.      *)
(***************************************************************************)
C14_SeekAddress ==
    /\ (AllBasesPresent /\ pos = 0 /\ res = "none") =>
          \A n \in DOMAIN Index.inner :
              LET rec == idx(Index, n)
              IN  \A p \in 0..(rec.len - 1) :
                    /\ Addr(rec, p) < Len(File)
                    /\ File[Addr(rec, p) + 1] = BaseByte(RecNo(rec), p)
                    /\ File[Addr(rec, p) + 1] \notin Terminators
                    /\ seek_to(rec, p) =
                          [panic |-> FALSE,
                           line_offset |-> p % rec.line_bases,
                           offset |-> Addr(rec, p)]
    /\ (pc = "read" /\ io.reads = 0) =>
          /\ pos = Addr(cur.rec, cur.start)
          /\ cur.line_offset = cur.start % cur.rec.line_bases
    /\ (IterAlive /\ out = <<>>) =>
          /\ pos = Addr(It.record, ireq.start)
          /\ It.line_offset = ireq.start % It.record.line_bases

\* a read has sought a base inside the second line of a record whose
\* lines end in CR LF, and the source is at that base
C14_Witness ==
    /\ pc = "read"
    /\ io.reads = 0
    /\ w.t = 2
    /\ cur.start < cur.rec.len
    /\ cur.start % cur.rec.line_bases # 0
    /\ LineOf(cur.rec, cur.start) >= 1
    /\ File[pos + 1] = BaseByte(RecNo(cur.rec), cur.start)

(***************************************************************************)
(* C15: the seek arithmetic never fails. Whatever the non-negative fields  *)
(* of the index record, no call of read, read_all, read_iter or            *)
(* read_iter_all ends in a panic of seek_to, and every request that        *)
(* reached seek_to satisfies the asserted start <= len.                    *)
(***************************************************************************)
C15_SeekArithmeticTotal ==
    /\ pc # "panicked"
    /\ res # "panic"
    /\ pc = "read" => cur.start <= cur.rec.len
    /\ IterAlive => ireq.start <= It.record.len

(***************************************************************************)
(* C16: the line cursor. During an eager read and in every iterator,       *)
(* 0 <= line_offset < line_bytes, and line_offset is the number of bytes   *)
(* between the start of the current physical line and the source           *)
(* position: it starts as start mod line_bases, grows by the bytes of      *)
(* each chunked read and returns to 0 at line_bytes.                       *)
(***************************************************************************)
C16_LineCursorInRange ==
    /\ pc = "read" =>
          /\ 0 <= cur.line_offset
          /\ cur.line_offset < cur.rec.line_bytes
          /\ cur.line_offset = (pos - cur.rec.offset) % cur.rec.line_bytes
          /\ io.reads = 0 => cur.line_offset = cur.start % cur.rec.line_bases
    /\ \A k \in 1..Len(iters) :
          /\ 0 <= iters[k].line_offset
          /\ iters[k].line_offset < iters[k].record.line_bytes
          /\ (\A i \in 1..Len(out) : out[i] # ErrItem) =>
                iters[k].line_offset =
                    (pos - iters[k].record.offset) % iters[k].record.line_bytes
          /\ out = <<>> =>
                iters[k].line_offset = ireq.start % iters[k].record.line_bases

\* an iterator whose line cursor has returned to 0 at the end of a line
\* closed by CR LF, with bases of the next line still to be read
C16_Witness ==
    /\ IterAlive
    /\ w.t = 2
    /\ It.line_offset = 0
    /\ It.bases_left > 0
    /\ pos > Addr(It.record, ireq.start)
    /\ ireq.start % It.record.line_bases # 0

(***************************************************************************)
(* C17, as stated: whenever the requested span fits within what remains    *)
(* of the starting line, the request is completed with at most one read    *)
(* of the source: the eager loop makes one chunked read at most, and the   *)
(* first refill of an iterator leaves no base to be read.                  *)
(***************************************************************************)
C17_FitsOneRead ==
    /\ (pc = "read" /\ FitsOnLine(cur.rec, cur.start, cur.stop)) =>
          /\ io.reads <= 1
          /\ io.reads = 1 => cur.bases_left = 0
    /\ (/\ IterAlive
        /\ FitsOnLine(It.record, ireq.start, ireq.stop)
        /\ BytesOf(out) # <<>>) => It.bases_left = 0

(***************************************************************************)
(* C17, amended: whenever the requested span fits within what remains of   *)
(* the starting line and is at most MAX_FASTA_BUFFER_SIZE bases long, the  *)
(* request is completed with at most one read of the source.               *)
(***************************************************************************)
C17_FitsOneReadCapped ==
    /\ (/\ pc = "read"
        /\ FitsOnLine(cur.rec, cur.start, cur.stop)
        /\ cur.stop - cur.start <= MAX_FASTA_BUFFER_SIZE) =>
          /\ io.reads <= 1
          /\ io.reads = 1 => cur.bases_left = 0
    /\ (/\ IterAlive
        /\ FitsOnLine(It.record, ireq.start, ireq.stop)
        /\ ireq.stop - ireq.start <= MAX_FASTA_BUFFER_SIZE
        /\ BytesOf(out) # <<>>) => It.bases_left = 0

\* a read of exactly MAX_FASTA_BUFFER_SIZE bases of one line, not from the
\* start of the line, done by one chunked read
C17_Witness ==
    /\ pc = "read"
    /\ cur.bases_left = 0
    /\ io.reads = 1
    /\ cur.start > 0
    /\ FitsOnLine(cur.rec, cur.start, cur.stop)
    /\ cur.stop - cur.start = MAX_FASTA_BUFFER_SIZE

(***************************************************************************)
(* C18: chunks that keep nothing. For a record whose line_bytes is at most *)
(* MAX_FASTA_BUFFER_SIZE, every chunked read issued while bases remain     *)
(* keeps at least one base, on both paths. Whatever the record, a next()   *)
(* that refilled the buffer produces the next base of the range, and the   *)
(* end is signalled only after all stop - start bases were produced.       *)
(***************************************************************************)
C18_ZeroKeepOnlyWhenCapped ==
    /\ (/\ pc = "read"
        /\ cur.bases_left > 0
        /\ cur.rec.line_bytes <= MAX_FASTA_BUFFER_SIZE) =>
          read_line(cur.rec, cur.line_offset, cur.bases_left,
                    Len(cur.buf)).bytes_to_keep >= 1
    /\ IterAlive =>
          /\ (/\ It.bases_left > 0
              /\ It.buf_idx = It.buf_len
              /\ It.record.line_bytes <= MAX_FASTA_BUFFER_SIZE) =>
                /\ read_line(It.record, It.line_offset, It.bases_left,
                             Len(It.buf)).bytes_to_keep >= 1
                /\ io.reads <= 1
          /\ (out # <<>> /\ out[Len(out)] >= 0) =>
                /\ It.buf_len >= 1
                /\ out[Len(out)] =
                      BaseByte(RecNo(It.record), ireq.start + Len(out) - 1)
          /\ (out # <<>> /\ out[Len(out)] = EndItem) =>
                /\ Len(out) > ireq.stop - ireq.start
                /\ ireq.stop > ireq.start => out[ireq.stop - ireq.start] >= 0

\* a next() whose refill made a chunked read that kept nothing, then one
\* that kept bases, and produced a base
C18_Witness ==
    /\ IterAlive
    /\ res = "Some"
    /\ io.reads = 2
    /\ It.record.line_bytes > MAX_FASTA_BUFFER_SIZE
    /\ It.buf_len >= 1
    /\ out[Len(out)] = BaseByte(RecNo(It.record), ireq.start + Len(out) - 1)

(***************************************************************************)
(* C19: the slices of a chunked read. For every chunked read that can be   *)
(* issued during a valid request, on either path,                          *)
(* 0 <= bytes_to_keep <= bytes_to_read <= buffer capacity <= 512 and       *)
(* bytes_to_keep <= bases remaining: both slices lie within the buffer     *)
(* and the counter of remaining bases never goes below 0.                  *)
(***************************************************************************)
C19_ChunkWithinBuffer ==
    /\ pc = "read" =>
          LET a == read_line(cur.rec, cur.line_offset, cur.bases_left,
                             Len(cur.buf))
          IN  /\ cur.bases_left >= 0
              /\ Len(cur.buf) <= MAX_FASTA_BUFFER_SIZE
              /\ cur.bases_left > 0 =>
                    /\ 0 <= a.bytes_to_keep
                    /\ a.bytes_to_keep <= a.bytes_to_read
                    /\ a.bytes_to_read <= Len(cur.buf)
                    /\ a.bytes_to_keep <= cur.bases_left
    /\ IterAlive =>
          LET a == read_line(It.record, It.line_offset, It.bases_left,
                             Len(It.buf))
          IN  /\ It.bases_left >= 0
              /\ Len(It.buf) <= MAX_FASTA_BUFFER_SIZE
              /\ It.buf_idx <= It.buf_len
              /\ It.buf_len <= Len(It.buf)
              /\ It.bases_left > 0 =>
                    /\ 0 <= a.bytes_to_keep
                    /\ a.bytes_to_keep <= a.bytes_to_read
                    /\ a.bytes_to_read <= Len(It.buf)
                    /\ a.bytes_to_keep <= It.bases_left

\* a buffer of exactly 512 bytes for lines of more bytes, filled by a chunk
\* that kept fewer bytes than it read
C19_Witness ==
    /\ pc = "read"
    /\ io.reads = 1
    /\ cur.rec.line_bytes > MAX_FASTA_BUFFER_SIZE
    /\ Len(cur.buf) = MAX_FASTA_BUFFER_SIZE
    /\ Len(seq) < MAX_FASTA_BUFFER_SIZE
    /\ cur.buf[MAX_FASTA_BUFFER_SIZE] = CR
    /\ cur.bases_left > 0

(***************************************************************************)
(* C20: the end is terminal. Once next() has returned None, every later    *)
(* next() on the same iterator returns None again, produces no byte,       *)
(* issues no seek and no read and leaves the source and the iterator as    *)
(* they were.                                                              *)
(***************************************************************************)
C20_EndIsTerminal ==
    [][(IterAlive /\ res = "None" /\ iters' # <<>>) =>
          /\ res' = "None"
          /\ out' = Append(out, EndItem)
          /\ io' = NoIO
          /\ pos' = pos
          /\ iters' = iters]_vars

\* an iterator over a nonempty range has signalled the end twice
C20_Witness ==
    /\ IterAlive
    /\ ireq.stop > ireq.start
    /\ Len(out) = (ireq.stop - ireq.start) + 2
    /\ out[Len(out)] = EndItem
    /\ out[Len(out) - 1] = EndItem
    /\ out[Len(out) - 2] >= 0

(***************************************************************************)
(* C21: size_hint. At every point of an iteration both bounds of           *)
(* size_hint are bases_left + (buf_len - buf_idx), which is stop - start   *)
(* minus the number of bytes already produced; buf_idx <= buf_len <= the   *)
(* capacity of the buffer; and a refill, whether it succeeds or fails,     *)
(* leaves bases_left + (buf_len - buf_idx) as it was.                      *)
(***************************************************************************)
C21_SizeHintExact ==
    IterAlive =>
        LET left == (ireq.stop - ireq.start) - Len(BytesOf(out))
            h    == size_hint(It)
        IN  /\ h.lower = left
            /\ h.upper = left
            /\ It.bases_left + (It.buf_len - It.buf_idx) = left
            /\ hint # NoHint => hint = [lower |-> left, upper |-> left]
            /\ 0 <= It.buf_idx
            /\ It.buf_idx <= It.buf_len
            /\ It.buf_len <= Len(It.buf)
            /\ (It.buf_idx = It.buf_len /\ It.bases_left > 0) =>
                  LET f == fill_buffer(File, It, pos, 0)
                  IN  f.it.bases_left + (f.it.buf_len - f.it.buf_idx)
                        = It.bases_left

\* size_hint was asked in the middle of a buffer, after a refill, with
\* bases of the range still to be read from the source
C21_Witness ==
    /\ IterAlive
    /\ hint # NoHint
    /\ hint.lower > 0
    /\ It.buf_idx > 0
    /\ It.buf_idx < It.buf_len
    /\ It.bases_left > 0
    /\ hint.upper = (ireq.stop - ireq.start) - Len(BytesOf(out))

====
